---- MODULE Spec2Model ----
(***************************************************************************)
(* Sticker Sketchpad (src/src/main.ts, lines 57-398; src/unnamed/part_000  *)
(* is an earlier revision with the same model and handlers).               *)
(*                                                                         *)
(* The program is a set of module-level variables and a set of DOM event   *)
(* handlers that run to completion one at a time.  Every handler is a      *)
(* function from the program state (a record, St) to the next state; an    *)
(* action applies one handler to the current state and installs the        *)
(* result.  bus.dispatchEvent is synchronous, so notify(...) runs redraw   *)
(* inside the handler that calls it.                                       *)
(*                                                                         *)
(* Lines 1-56 of main.ts are the first revision's handlers, which stroke   *)
(* straight onto the canvas and keep no history; they are not modelled.    *)
(* The thick marker and the other stickers differ from the tools below in  *)
(* their parameters only and are left out of the input set.                *)
(***************************************************************************)
EXTENDS Integers, Sequences, FiniteSets, TLC

VARIABLES
    tool,          \* let tool: Tool
    current,       \* let current: DisplayCommand | undefined  (object id, 0 = undefined)
    preview,       \* let preview: Preview | undefined
    displayList,   \* const displayList: DisplayCommand[]      (sequence of object ids)
    redoStack,     \* const redoStack: DisplayCommand[]        (sequence of object ids)
    mouseDown,     \* let mouseDown
    mouseX,        \* let mouseX
    mouseY,        \* let mouseY
    cmds,          \* the heap: object id -> closure state of a DisplayCommand
    nextId,        \* identity of the next DisplayCommand object to be created
    undoDisabled,  \* undoBtn.disabled
    redoDisabled,  \* redoBtn.disabled
    displayed,     \* the commands whose display() the latest redraw called, in call order
    previewShown,  \* whether the latest redraw called preview.display()
    notified,      \* the bus events the latest handler dispatched, in order
    passes,        \* the number of redraw passes the latest handler ran
    dragged,       \* the command whose drag() the latest handler called (0 = none)
    lastOp,        \* the latest handler that ran
    pre,           \* displayList, redoStack, current, mouseDown as they were before it
    pre2,          \* when an effective undo was directly followed by redo: the state before the undo
    begins,        \* the number of mousedown events handled so far
    historyOps,    \* whether an undo, redo or clear click was handled so far
    live,          \* the commands created and neither cleared nor dropped from the redo chain
    sinceClear,    \* whether clear was handled and no mousedown since
    pointerOver,   \* environment: whether the pointer is over the canvas
    pressed,       \* environment: whether the mouse button is held down
    selected,      \* the tool the latest setTool call was given
    fed,           \* per command, the points its mousedown and mousemove events carried:
                   \* all of them in order for a marker, the latest one for a sticker
    born           \* per command, the tool that was active at its mousedown

prog == <<tool, current, preview, displayList, redoStack, mouseDown, mouseX, mouseY,
          cmds, nextId, undoDisabled, redoDisabled, displayed, previewShown,
          notified, passes, dragged>>

vars == <<tool, current, preview, displayList, redoStack, mouseDown, mouseX, mouseY,
          cmds, nextId, undoDisabled, redoDisabled, displayed, previewShown,
          notified, passes, dragged, lastOp, pre, pre2, begins, historyOps, live,
          sinceClear, pointerOver, pressed, selected, fed, born>>

(***************************************************************************)
(* Bounds of the model.                                                    *)
(***************************************************************************)
MaxCmds == 2    \* mousedown events per behaviour (DisplayCommand objects ever created)
MaxPts == 2     \* points a marker command may hold

(***************************************************************************)
(* Program constants and the inputs the events are drawn from.             *)
(***************************************************************************)
THIN == 3
StickerSize == 28

MarkerTool(thickness) == [kind |-> "marker", thickness |-> thickness]
StickerTool(emoji, size) == [kind |-> "sticker", emoji |-> emoji, size |-> size]

\* The tools the tool buttons select: the thin marker and the first default sticker.
Tools == {MarkerTool(THIN), StickerTool("star", StickerSize)}

\* Pointer positions the mouse events carry (offsetX, offsetY).
Positions == {<<10, 10>>, <<20, 20>>}

isMarker(t) == t.kind = "marker"

NoPreview == [kind |-> "none"]
NoSnapshot == [kind |-> "none"]

(***************************************************************************)
(* Commands and previews.                                                  *)
(***************************************************************************)
makeMarkerCommand(thickness, x, y) ==
    [kind |-> "marker", thickness |-> thickness, points |-> << <<x, y>> >>]

makeStickerCommand(emoji, size, x, y) ==
    [kind |-> "sticker", emoji |-> emoji, size |-> size, px |-> x, py |-> y]

\* A drag that overwrites a marker's latest point instead of pushing a new one.
dragOverwritesLast(cmd, nx, ny) ==
    IF cmd.kind = "marker"
    THEN [cmd EXCEPT !.points[Len(cmd.points)] = <<nx, ny>>]
    ELSE [cmd EXCEPT !.px = nx, !.py = ny]

\* A drag that leaves a sticker where it was stamped.
dragMarkerOnly(cmd, nx, ny) ==
    IF cmd.kind = "marker"
    THEN [cmd EXCEPT !.points = Append(@, <<nx, ny>>)]
    ELSE cmd

\* DisplayCommand.drag: a marker appends the point, a sticker is repositioned.
drag(cmd, nx, ny) ==
    IF cmd.kind = "marker"
    THEN [cmd EXCEPT !.points = Append(@, <<nx, ny>>)]
    ELSE [cmd EXCEPT !.px = nx, !.py = ny]

makeMarkerPreview(thickness, x, y) ==
    [kind |-> "marker", thickness |-> thickness, x |-> x, y |-> y]

makeStickerPreview(emoji, size, x, y) ==
    [kind |-> "sticker", emoji |-> emoji, size |-> size, x |-> x, y |-> y]

Range(s) == {s[i] : i \in DOMAIN s}

(***************************************************************************)
(* The program state as one record, and redraw.                            *)
(***************************************************************************)
St ==
    [tool |-> tool, current |-> current, preview |-> preview,
     displayList |-> displayList, redoStack |-> redoStack,
     mouseDown |-> mouseDown, mouseX |-> mouseX, mouseY |-> mouseY,
     cmds |-> cmds, nextId |-> nextId,
     undoDisabled |-> undoDisabled, redoDisabled |-> redoDisabled,
     displayed |-> displayed, previewShown |-> previewShown,
     notified |-> <<>>, passes |-> 0, dragged |-> 0]

\* redraw, the display calls: every command of displayList, then current.
DisplayCalls(s) ==
    s.displayList \o (IF s.current # 0 THEN <<s.current>> ELSE <<>>)

\* A redraw that forgets the mouseDown test.
PreviewCallAlways(s) == s.preview # NoPreview

\* redraw, "preview shows only when mouse is NOT down".
PreviewCall(s) == ~s.mouseDown /\ s.preview # NoPreview

\* redraw, the button states.
UndoBtnDisabled(s) == Len(s.displayList) = 0

\* A redraw that derives both button states from displayList.
RedoBtnDisabledFromDisplayList(s) == Len(s.displayList) = 0

RedoBtnDisabled(s) == Len(s.redoStack) = 0

redraw(s) ==
    [s EXCEPT !.displayed = DisplayCalls(s),
              !.previewShown = PreviewCall(s),
              !.undoDisabled = UndoBtnDisabled(s),
              !.redoDisabled = RedoBtnDisabled(s),
              !.passes = @ + 1]

\* notify(name): both bus events have redraw as their only listener.
notify(s, name) == redraw([s EXCEPT !.notified = Append(@, name)])

updatePreview(s, x, y) ==
    IF s.mouseDown
    THEN [s EXCEPT !.preview = NoPreview]
    ELSE [s EXCEPT !.preview =
              IF isMarker(s.tool)
              THEN makeMarkerPreview(s.tool.thickness, x, y)
              ELSE makeStickerPreview(s.tool.emoji, s.tool.size, x, y)]

\* A setTool that also re-creates the command in progress with the new tool.
setToolRestyles(s, t) ==
    LET s1 == updatePreview([s EXCEPT !.tool = t], s.mouseX, s.mouseY)
        cmd == IF isMarker(t)
               THEN makeMarkerCommand(t.thickness, s.mouseX, s.mouseY)
               ELSE makeStickerCommand(t.emoji, t.size, s.mouseX, s.mouseY)
    IN  notify(IF s.current # 0 THEN [s1 EXCEPT !.cmds[s.current] = cmd] ELSE s1,
               "tool-moved")

\* A setTool that leaves the preview for the next pointer-move to update.
setToolKeepPreview(s, t) == notify([s EXCEPT !.tool = t], "tool-moved")

setTool(s, t) ==
    notify(updatePreview([s EXCEPT !.tool = t], s.mouseX, s.mouseY), "tool-moved")

(***************************************************************************)
(* The event handlers.                                                     *)
(***************************************************************************)
\* mousedown, lines 335-341: the new command becomes current and is pushed.
BeginCommand(s, x, y) ==
    LET id == s.nextId
        cmd == IF isMarker(s.tool)
               THEN makeMarkerCommand(s.tool.thickness, x, y)
               ELSE makeStickerCommand(s.tool.emoji, s.tool.size, x, y)
    IN  [s EXCEPT !.mouseDown = TRUE,
                  !.current = id,
                  !.nextId = id + 1,
                  !.cmds = [i \in DOMAIN s.cmds \cup {id} |->
                                IF i = id THEN cmd ELSE s.cmds[i]],
                  !.displayList = Append(@, id),
                  !.redoStack = <<>>]

\* A mousedown that keeps the redo chain.
OnMouseDownKeepRedo(s, x, y) ==
    notify([BeginCommand(s, x, y) EXCEPT !.redoStack = s.redoStack], "drawing-changed")

\* A mousedown that, while a command is in progress, puts the new command in the
\* place of the one in progress instead of pushing it.
OnMouseDownReplace(s, x, y) ==
    LET b == BeginCommand(s, x, y)
    IN  notify(IF s.current # 0 /\ Len(s.displayList) > 0
               THEN [b EXCEPT !.displayList =
                         [s.displayList EXCEPT ![Len(s.displayList)] = b.current]]
               ELSE b,
               "drawing-changed")

OnMouseDown(s, x, y) == notify(BeginCommand(s, x, y), "drawing-changed")

OnMouseMove(s, x, y) ==
    LET s1 == [s EXCEPT !.mouseX = x, !.mouseY = y]
    IN  IF s1.current # 0
        THEN notify([s1 EXCEPT !.cmds[s1.current] = drag(@, x, y),
                               !.dragged = s1.current],
                    "drawing-changed")
        ELSE notify(updatePreview(s1, x, y), "tool-moved")

\* mouseup, lines 359-361.
EndGesture(s) ==
    LET s1 == [s EXCEPT !.mouseDown = FALSE, !.current = 0]
    IN  updatePreview(s1, s1.mouseX, s1.mouseY)

\* A mouseup that takes a marker command of a single point back off displayList.
OnMouseUpDropDegenerate(s) ==
    LET e == EndGesture(s)
        c == s.current
    IN  notify(IF /\ c # 0
                  /\ s.cmds[c].kind = "marker"
                  /\ Len(s.cmds[c].points) < 2
                  /\ Len(s.displayList) > 0
                  /\ s.displayList[Len(s.displayList)] = c
               THEN [e EXCEPT !.displayList = SubSeq(@, 1, Len(@) - 1)]
               ELSE e,
               "drawing-changed")

\* A mouseup that returns at once when no command is in progress.
OnMouseUpGuarded(s) ==
    IF s.current = 0 THEN s ELSE notify(EndGesture(s), "drawing-changed")

OnMouseUp(s) == notify(EndGesture(s), "drawing-changed")

\* A clear that keeps the preview.
OnClearKeepPreview(s) ==
    notify([s EXCEPT !.displayList = <<>>,
                     !.redoStack = <<>>,
                     !.current = 0],
           "drawing-changed")

\* A clear that leaves current as it is.
OnClearKeepCurrent(s) ==
    notify([s EXCEPT !.displayList = <<>>,
                     !.redoStack = <<>>,
                     !.preview = NoPreview],
           "drawing-changed")

OnClear(s) ==
    notify([s EXCEPT !.displayList = <<>>,
                     !.redoStack = <<>>,
                     !.current = 0,
                     !.preview = NoPreview],
           "drawing-changed")

\* undo, lines 385-386: pop displayList, push onto redoStack.
UndoMove(s) ==
    LET popped == s.displayList[Len(s.displayList)]
    IN  [s EXCEPT !.displayList = SubSeq(@, 1, Len(@) - 1),
                  !.redoStack = Append(@, popped)]

\* An undo that puts the popped command at the bottom of redoStack (unshift).
OnUndoUnshift(s) ==
    IF Len(s.displayList) = 0
    THEN s
    ELSE notify([UndoMove(s) EXCEPT !.redoStack =
                     <<s.displayList[Len(s.displayList)]>> \o s.redoStack],
                "drawing-changed")

\* An undo that reads the last command without popping it.
OnUndoPeek(s) ==
    IF Len(s.displayList) = 0
    THEN s
    ELSE notify([UndoMove(s) EXCEPT !.displayList = s.displayList], "drawing-changed")

\* An undo that notifies before it tests for the empty list.
OnUndoNotifyFirst(s) ==
    IF Len(s.displayList) = 0
    THEN notify(s, "drawing-changed")
    ELSE notify(UndoMove(s), "drawing-changed")

OnUndo(s) ==
    IF Len(s.displayList) = 0
    THEN s
    ELSE notify(UndoMove(s), "drawing-changed")

\* redo, lines 392-393: pop redoStack, push onto displayList.
RedoMove(s) ==
    LET popped == s.redoStack[Len(s.redoStack)]
    IN  [s EXCEPT !.redoStack = SubSeq(@, 1, Len(@) - 1),
                  !.displayList = Append(@, popped)]

\* A redo that takes the oldest undone command (shift) instead of the newest (pop).
OnRedoShift(s) ==
    IF Len(s.redoStack) = 0
    THEN s
    ELSE notify([s EXCEPT !.redoStack = SubSeq(@, 2, Len(@)),
                          !.displayList = Append(@, s.redoStack[1])],
                "drawing-changed")

OnRedo(s) ==
    IF Len(s.redoStack) = 0
    THEN s
    ELSE notify(RedoMove(s), "drawing-changed")

(***************************************************************************)
(* Installing a handler's result.  Command objects that no variable        *)
(* references any more are garbage and leave the heap.                     *)
(***************************************************************************)
Reachable(s) ==
    (Range(s.displayList) \cup Range(s.redoStack) \cup {s.current}) \ {0}

Install(s) ==
    /\ tool' = s.tool
    /\ current' = s.current
    /\ preview' = s.preview
    /\ displayList' = s.displayList
    /\ redoStack' = s.redoStack
    /\ mouseDown' = s.mouseDown
    /\ mouseX' = s.mouseX
    /\ mouseY' = s.mouseY
    /\ cmds' = [i \in Reachable(s) |-> s.cmds[i]]
    /\ nextId' = s.nextId
    /\ undoDisabled' = s.undoDisabled
    /\ redoDisabled' = s.redoDisabled
    /\ displayed' = s.displayed
    /\ previewShown' = s.previewShown
    /\ notified' = s.notified
    /\ passes' = s.passes
    /\ dragged' = s.dragged

Snapshot ==
    [kind |-> "state", displayList |-> displayList, redoStack |-> redoStack,
     current |-> current, mouseDown |-> mouseDown]

Ran(op) ==
    /\ lastOp' = op
    /\ pre' = Snapshot

(***************************************************************************)
(* Startup: the module-level initialisers (lines 275-281), then            *)
(* setTool(tool) and redraw() (lines 397-398).                             *)
(***************************************************************************)
Loaded ==
    [tool |-> MarkerTool(THIN), current |-> 0, preview |-> NoPreview,
     displayList |-> <<>>, redoStack |-> <<>>,
     mouseDown |-> FALSE, mouseX |-> 0, mouseY |-> 0,
     cmds |-> <<>>, nextId |-> 1,
     undoDisabled |-> FALSE, redoDisabled |-> FALSE,
     displayed |-> <<>>, previewShown |-> FALSE,
     notified |-> <<>>, passes |-> 0, dragged |-> 0]

Started == redraw(setTool(Loaded, Loaded.tool))

Init ==
    /\ tool = Started.tool
    /\ current = Started.current
    /\ preview = Started.preview
    /\ displayList = Started.displayList
    /\ redoStack = Started.redoStack
    /\ mouseDown = Started.mouseDown
    /\ mouseX = Started.mouseX
    /\ mouseY = Started.mouseY
    /\ cmds = Started.cmds
    /\ nextId = Started.nextId
    /\ undoDisabled = Started.undoDisabled
    /\ redoDisabled = Started.redoDisabled
    /\ displayed = Started.displayed
    /\ previewShown = Started.previewShown
    /\ notified = Started.notified
    /\ passes = Started.passes
    /\ dragged = Started.dragged
    /\ lastOp = "start"
    /\ pre = NoSnapshot
    /\ pre2 = NoSnapshot
    /\ begins = 0
    /\ historyOps = FALSE
    /\ live = {}
    /\ sinceClear = FALSE
    /\ pointerOver = TRUE
    /\ pressed = FALSE
    /\ selected = Loaded.tool
    /\ fed = <<>>
    /\ born = <<>>

(***************************************************************************)
(* Actions: one per event handler.  The canvas listeners run only for      *)
(* events that happen over the canvas.                                     *)
(***************************************************************************)
\* The observations kept per command, for the commands still referenced.
Kept(f) == [i \in DOMAIN cmds' |-> f[i]]

MouseDown ==
    /\ nextId <= MaxCmds
    /\ pointerOver
    /\ \E p \in Positions :
        /\ Install(OnMouseDown(St, p[1], p[2]))
        /\ fed' = [i \in DOMAIN cmds' |-> IF i = nextId THEN <<p>> ELSE fed[i]]
    /\ born' = [i \in DOMAIN cmds' |-> IF i = nextId THEN tool ELSE born[i]]
    /\ Ran("mousedown")
    /\ pre2' = NoSnapshot
    /\ begins' = begins + 1
    /\ live' = (live \ Range(redoStack)) \cup {nextId}
    /\ sinceClear' = FALSE
    /\ pressed' = TRUE
    /\ UNCHANGED <<historyOps, pointerOver, selected>>

MouseMove ==
    /\ current # 0 /\ cmds[current].kind = "marker" => Len(cmds[current].points) < MaxPts
    /\ \E p \in Positions :
        /\ Install(OnMouseMove(St, p[1], p[2]))
        /\ fed' = [i \in DOMAIN cmds' |->
                      IF i # current THEN fed[i]
                      ELSE IF born[i].kind = "marker" THEN Append(fed[i], p)
                      ELSE <<p>>]
    /\ Ran("mousemove")
    /\ pre2' = NoSnapshot
    /\ pointerOver' = TRUE
    /\ born' = Kept(born)
    /\ UNCHANGED <<begins, historyOps, live, sinceClear, pressed, selected>>

MouseUp ==
    /\ pointerOver
    /\ Install(OnMouseUp(St))
    /\ Ran("mouseup")
    /\ pre2' = NoSnapshot
    /\ pressed' = FALSE
    /\ fed' = Kept(fed)
    /\ born' = Kept(born)
    /\ UNCHANGED <<begins, historyOps, live, sinceClear, pointerOver, selected>>

ClearClick ==
    /\ Install(OnClear(St))
    /\ Ran("clear")
    /\ pre2' = NoSnapshot
    /\ historyOps' = TRUE
    /\ live' = {}
    /\ sinceClear' = TRUE
    /\ fed' = Kept(fed)
    /\ born' = Kept(born)
    /\ UNCHANGED <<begins, pointerOver, pressed, selected>>

UndoClick ==
    /\ Install(OnUndo(St))
    /\ Ran("undo")
    /\ pre2' = NoSnapshot
    /\ historyOps' = TRUE
    /\ fed' = Kept(fed)
    /\ born' = Kept(born)
    /\ UNCHANGED <<begins, live, sinceClear, pointerOver, pressed, selected>>

RedoClick ==
    /\ Install(OnRedo(St))
    /\ Ran("redo")
    /\ pre2' = IF lastOp = "undo" /\ Len(pre.displayList) > 0 THEN pre ELSE NoSnapshot
    /\ historyOps' = TRUE
    /\ fed' = Kept(fed)
    /\ born' = Kept(born)
    /\ UNCHANGED <<begins, live, sinceClear, pointerOver, pressed, selected>>

ToolClick ==
    /\ \E t \in Tools :
        /\ Install(setTool(St, t))
        /\ selected' = t
    /\ Ran("tool")
    /\ pre2' = NoSnapshot
    /\ fed' = Kept(fed)
    /\ born' = Kept(born)
    /\ UNCHANGED <<begins, historyOps, live, sinceClear, pointerOver, pressed>>

Next ==
    \/ MouseDown
    \/ MouseMove
    \/ MouseUp
    \/ ClearClick
    \/ UndoClick
    \/ RedoClick
    \/ ToolClick

Spec == Init /\ [][Next]_vars

(***************************************************************************)
(* Pointer events for which the program registers no listener: it has no   *)
(* mouseleave listener, and a mouseup outside the canvas reaches no        *)
(* listener of the canvas.  The program state stays as it is.              *)
(***************************************************************************)
PointerLeave ==
    /\ pointerOver
    /\ Install(St)
    /\ Ran("mouseleave")
    /\ pre2' = NoSnapshot
    /\ pointerOver' = FALSE
    /\ fed' = Kept(fed)
    /\ born' = Kept(born)
    /\ UNCHANGED <<begins, historyOps, live, sinceClear, pressed, selected>>

ReleaseOutside ==
    /\ ~pointerOver
    /\ pressed
    /\ Install(St)
    /\ Ran("release-outside")
    /\ pre2' = NoSnapshot
    /\ pressed' = FALSE
    /\ fed' = Kept(fed)
    /\ born' = Kept(born)
    /\ UNCHANGED <<begins, historyOps, live, sinceClear, pointerOver, selected>>

NextPointer ==
    \/ Next
    \/ PointerLeave
    \/ ReleaseOutside

SpecPointer == Init /\ [][NextPointer]_vars

TypeOK ==
    /\ tool \in Tools
    /\ current \in 0..MaxCmds
    /\ mouseDown \in BOOLEAN
    /\ DOMAIN cmds \subseteq 1..MaxCmds
    /\ nextId \in 1..(MaxCmds + 1)

(***************************************************************************)
(* Properties.                                                             *)
(***************************************************************************)
Idle == current = 0
Drawing == current # 0

\* The latest handler ran from a state with the given shape.
WasIdle == pre # NoSnapshot /\ pre.current = 0
WasDrawing == pre # NoSnapshot /\ pre.current # 0

HistoryUnchanged ==
    /\ displayList = pre.displayList
    /\ redoStack = pre.redoStack
    /\ current = pre.current
    /\ dragged = 0

\* C1: as long as only pointer-down, pointer-move and pointer-up events (and tool
\* selections) have been handled, displayList holds as many commands as there have
\* been pointer-down events: each pointer-down appends one, move and up none.
C1_CommittedCountsBegins == ~historyOps => Len(displayList) = begins

C1_Witness ==
    /\ ~historyOps
    /\ begins = 2
    /\ Len(displayList) = 2
    /\ lastOp = "mouseup"
    /\ WasDrawing

\* C2: when undo ran with displayList non-empty and redo ran directly after it,
\* displayList and redoStack hold the same commands in the same order as before
\* the undo, whether or not a command is in progress.
C2_UndoRedoRestores ==
    pre2 # NoSnapshot =>
        /\ displayList = pre2.displayList
        /\ redoStack = pre2.redoStack

C2_Witness ==
    /\ pre2 # NoSnapshot
    /\ Len(pre2.displayList) > 0
    /\ Len(pre2.redoStack) > 0
    /\ lastOp = "redo"
    /\ Drawing

\* C3: a pointer-down handled while redoStack was non-empty leaves redoStack empty
\* and the redo button disabled when the handler returns.
C3_BeginClearsRedo ==
    (lastOp = "mousedown" /\ Len(pre.redoStack) > 0) =>
        (redoStack = <<>> /\ redoDisabled)

C3_Witness ==
    /\ lastOp = "mousedown"
    /\ Len(pre.redoStack) > 0
    /\ redoStack = <<>>
    /\ redoDisabled

\* C4: from clear until the next pointer-down, displayList and redoStack are empty,
\* no command is in progress and no handler drags a command; this covers a clear in
\* the middle of a gesture, after which mouseDown is still set.
C4_ClearResets ==
    /\ lastOp = "clear" => passes = 1
    /\ sinceClear =>
        /\ displayList = <<>>
        /\ redoStack = <<>>
        /\ current = 0
        /\ DOMAIN cmds = {}
        /\ dragged = 0

C4_Witness ==
    /\ sinceClear
    /\ mouseDown
    /\ lastOp = "mousemove"
    /\ WasIdle
    /\ displayList = <<>>

\* The places that hold command i.
Holders(i) ==
    {h \in {"committed", "undone", "in-progress"} :
        \/ h = "committed" /\ i \in Range(displayList)
        \/ h = "undone" /\ i \in Range(redoStack)
        \/ h = "in-progress" /\ i = current}

\* C5, as claimed: every command created and not yet cleared is held in exactly one
\* of displayList, redoStack and current.
C5_ExactlyOneOfThree == \A i \in live : Cardinality(Holders(i)) = 1

Occurrences(seq, i) == Cardinality({k \in DOMAIN seq : seq[k] = i})

\* C5, amended: every command created and neither cleared nor dropped from the
\* redo chain by a later pointer-down occurs exactly once in displayList and
\* redoStack together, these hold no other command, and the command in progress
\* is one of them (it is an alias, not a third place).
C5_OneOfCommittedUndone ==
    /\ \A i \in live : Occurrences(displayList, i) + Occurrences(redoStack, i) = 1
    /\ Range(displayList) \cup Range(redoStack) = live
    /\ current # 0 => current \in live

C5_Witness ==
    /\ Drawing
    /\ current \in Range(redoStack)
    /\ Len(displayList) > 0
    /\ lastOp = "undo"

\* C6: an undo click with displayList empty, and a redo click with redoStack empty,
\* return without changing displayList, redoStack or current, without dragging a
\* command, without dispatching an event and without a redraw.
C6_EmptyUndoRedoSilent ==
    (\/ lastOp = "undo" /\ pre.displayList = <<>>
     \/ lastOp = "redo" /\ pre.redoStack = <<>>) =>
        /\ HistoryUnchanged
        /\ notified = <<>>
        /\ passes = 0

C6_Witness ==
    /\ lastOp = "undo"
    /\ pre.displayList = <<>>
    /\ Drawing
    /\ notified = <<>>

\* C7, as claimed: a pointer-move or pointer-up handled while no command is in
\* progress changes neither displayList, redoStack nor current and dispatches no
\* "drawing-changed" event.
C7_IdleMoveUpSilent ==
    (lastOp \in {"mousemove", "mouseup"} /\ WasIdle) =>
        /\ HistoryUnchanged
        /\ "drawing-changed" \notin Range(notified)

\* C7, amended: such a pointer-move or pointer-up changes neither displayList,
\* redoStack nor current and drags no command; the pointer-move dispatches
\* "tool-moved" only, and the pointer-up still dispatches "drawing-changed"; each
\* runs one redraw.
C7_IdleMoveUpKeepHistory ==
    (lastOp \in {"mousemove", "mouseup"} /\ WasIdle) =>
        /\ HistoryUnchanged
        /\ notified = IF lastOp = "mouseup" THEN <<"drawing-changed">> ELSE <<"tool-moved">>
        /\ passes = 1

C7_Witness ==
    /\ lastOp = "mouseup"
    /\ WasIdle
    /\ Len(displayList) > 0
    /\ notified = <<"drawing-changed">>

\* C8: at startup and after every handler, the undo button is enabled exactly when
\* displayList is non-empty and the redo button exactly when redoStack is non-empty.
C8_ButtonsFollowStacks ==
    /\ ~undoDisabled <=> Len(displayList) > 0
    /\ ~redoDisabled <=> Len(redoStack) > 0

C8_Witness ==
    /\ lastOp = "undo"
    /\ ~undoDisabled
    /\ ~redoDisabled
    /\ Len(displayList) > 0
    /\ Len(redoStack) > 0

\* The history a handler leaves: displayList, redoStack, current and the commands.
HistoryOf(s) ==
    <<s.displayList, s.redoStack, s.current, [i \in Reachable(s) |-> s.cmds[i]]>>

\* C9: in every state with a command in progress, a pointer-down either leaves the
\* history as it is or leaves the history that pointer-up followed by the same
\* pointer-down leaves.
C9_BeginWhileDrawing ==
    Drawing =>
        \A p \in Positions :
            \/ HistoryOf(OnMouseDown(St, p[1], p[2])) = HistoryOf(St)
            \/ HistoryOf(OnMouseDown(St, p[1], p[2])) =
                   HistoryOf(OnMouseDown(OnMouseUp(St), p[1], p[2]))

C9_Witness ==
    /\ lastOp = "mousedown"
    /\ WasDrawing
    /\ pre.mouseDown
    /\ displayList = Append(pre.displayList, current)

\* C10: while the pointer is pressed or a command is in progress, the latest redraw
\* has not displayed the preview.
C10_NoPreviewDuringGesture == (mouseDown \/ Drawing) => ~previewShown

C10_Witness ==
    /\ Drawing
    /\ mouseDown
    /\ preview # NoPreview
    /\ lastOp = "redo"
    /\ passes = 1
    /\ ~previewShown

\* C11, as claimed: the latest redraw displayed the preview exactly when no
\* command is in progress; in particular it displayed it whenever the state is Idle.
C11_PreviewIffIdle == previewShown <=> Idle

\* C11, amended: the latest redraw displayed the preview exactly when the pointer
\* is not pressed and a preview exists, hence never while a command is in progress;
\* clear discards the preview, so the redraw that clear triggers displays none.
C11_PreviewIffNotPressedAndPresent ==
    /\ previewShown <=> (~mouseDown /\ preview # NoPreview)
    /\ Drawing => ~previewShown
    /\ lastOp = "clear" => (preview = NoPreview /\ ~previewShown /\ passes = 1)

C11_Witness ==
    /\ lastOp = "clear"
    /\ Idle
    /\ ~mouseDown
    /\ ~pre.mouseDown
    /\ ~previewShown
    /\ passes = 1

\* C12: when the pointer leaves the canvas the preview is discarded and a redraw
\* runs, and while the pointer is away from the canvas the latest redraw has
\* displayed no preview.
C12_LeaveDiscardsPreview ==
    /\ lastOp = "mouseleave" => (preview = NoPreview /\ passes >= 1)
    /\ ~pointerOver => ~previewShown

\* The preview is one of tool t: same kind, same thickness or same glyph and size.
PreviewMatches(p, t) ==
    /\ p.kind = t.kind
    /\ IF t.kind = "marker"
       THEN p.thickness = t.thickness
       ELSE p.emoji = t.emoji /\ p.size = t.size

\* C13: the active tool is the one the latest selection gave; a selection made
\* while the pointer is not pressed leaves a preview of the selected tool at the
\* position of the latest pointer-move, dispatches "tool-moved" and runs one redraw;
\* and a preview, whenever present, is one of the active tool.
C13_SelectUpdatesPreview ==
    /\ tool = selected
    /\ (lastOp = "tool" /\ ~pre.mouseDown) =>
        /\ preview # NoPreview
        /\ PreviewMatches(preview, selected)
        /\ preview.x = mouseX /\ preview.y = mouseY
        /\ previewShown
        /\ notified = <<"tool-moved">>
        /\ passes = 1
    /\ preview # NoPreview => PreviewMatches(preview, tool)

C13_Witness ==
    /\ lastOp = "tool"
    /\ ~pre.mouseDown
    /\ selected.kind = "sticker"
    /\ preview # NoPreview
    /\ preview.kind = "sticker"
    /\ preview.x = 20
    /\ Len(displayList) > 0

\* The gesture the latest pointer-up ended ran on the newest committed command
\* with nothing to redo, as every gesture of pointer-down, moves and up does.
EndedPlainGesture ==
    /\ lastOp = "mouseup"
    /\ WasDrawing
    /\ pre.redoStack = <<>>
    /\ Len(pre.displayList) > 0
    /\ pre.displayList[Len(pre.displayList)] = pre.current

\* C14: every marker command holds exactly the points its pointer-down and its
\* pointer-moves carried, in that order; and when such a gesture ends the command
\* is still committed, the undo button is enabled and the redo button disabled.
C14_StrokeHoldsGesturePoints ==
    /\ \A i \in DOMAIN cmds :
        cmds[i].kind = "marker" => cmds[i].points = fed[i]
    /\ EndedPlainGesture =>
        /\ displayList = pre.displayList
        /\ ~undoDisabled
        /\ redoDisabled

C14_Witness ==
    /\ EndedPlainGesture
    /\ displayList = <<pre.current>>
    /\ cmds[pre.current].kind = "marker"
    /\ cmds[pre.current].points = << <<10, 10>>, <<20, 20>> >>
    /\ ~undoDisabled
    /\ redoDisabled

\* C15: every sticker command holds one anchor and no point list, and the anchor
\* is the point of the latest event of its gesture: of its pointer-down when no
\* pointer-move followed, of the latest pointer-move otherwise.
C15_StickerHoldsLatestAnchor ==
    \A i \in DOMAIN cmds :
        cmds[i].kind = "sticker" =>
            /\ DOMAIN cmds[i] = {"kind", "emoji", "size", "px", "py"}
            /\ fed[i] = << <<cmds[i].px, cmds[i].py>> >>

C15_Witness ==
    /\ lastOp = "mousemove"
    /\ dragged # 0
    /\ cmds[dragged].kind = "sticker"
    /\ cmds[dragged].px = 20
    /\ cmds[dragged].py = 20
    /\ \E i \in DOMAIN cmds : i # dragged /\ cmds[i].kind = "sticker" /\ cmds[i].px = 10

\* display() of command i paints something: a marker of fewer than two points
\* returns without drawing.
Paints(i) ==
    /\ i \in DOMAIN cmds
    /\ cmds[i].kind = "marker" => Len(cmds[i].points) >= 2

\* C16: what the latest redraw painted is every painting command of displayList,
\* once each and in list order, and nothing else: the command in progress is
\* painted through its place in displayList only.
C16_PaintsCommittedOnce ==
    SelectSeq(displayed, Paints) = SelectSeq(displayList, Paints)

\* C17: once the mouse button has been released no command is in progress, and a
\* pointer-move handled with the button up drags no command.
C17_ReleaseEndsGesture ==
    /\ ~pressed => Idle
    /\ (lastOp = "mousemove" /\ ~pressed) => dragged = 0

\* C18: a handler drags only a command that is in displayList, never one that is
\* held in redoStack.
C18_UndoneNeverDragged ==
    dragged # 0 => (dragged \in Range(displayList) /\ dragged \notin Range(redoStack))

Reverse(seq) == [k \in 1..Len(seq) |-> seq[Len(seq) + 1 - k]]

\* The commands in commit order: displayList, then redoStack from its top down.
Timeline(dl, rs) == dl \o Reverse(rs)

\* C19: an undo or redo click leaves the sequence displayList followed by
\* redoStack from its top down as it was: no command is created, dropped or
\* reordered, and what redo commits next is what was undone last.
C19_LinearHistory ==
    lastOp \in {"undo", "redo"} =>
        Timeline(displayList, redoStack) = Timeline(pre.displayList, pre.redoStack)

C19_Witness ==
    /\ lastOp = "redo"
    /\ Len(pre.redoStack) = 2
    /\ Len(displayList) = 1
    /\ displayList[1] = pre.redoStack[2]
    /\ Timeline(displayList, redoStack) = <<1, 2>>

\* Command c has the variant and the parameters of tool t.
MadeWith(c, t) ==
    /\ c.kind = t.kind
    /\ IF t.kind = "marker"
       THEN c.thickness = t.thickness
       ELSE c.emoji = t.emoji /\ c.size = t.size

\* C20: a tool selection changes neither displayList, redoStack nor current and
\* drags no command, and every command has the variant and the parameters of the
\* tool that was active at its pointer-down, whatever tool is active now.
C20_ToolOnlyShapesNewCommands ==
    /\ lastOp = "tool" => HistoryUnchanged
    /\ \A i \in DOMAIN cmds : MadeWith(cmds[i], born[i])

C20_Witness ==
    /\ lastOp = "tool"
    /\ Drawing
    /\ pre.mouseDown
    /\ cmds[current].kind = "marker"
    /\ tool.kind = "sticker"
    /\ born[current].kind = "marker"

====
